---- MODULE Spec2Model ----
(***************************************************************************)
(* A model of src/internet_monitor.py: the InternetMonitor object (its     *)
(* connection state, its three CSV series), its operations                 *)
(* (test_connectivity, _handle_connection_state, run_speedtest,            *)
(* generate_report, upload_logs) and the control loop run_monitor.         *)
(*                                                                         *)
(* Time is an integer number of clock units; datetime.now() reads `clock`. *)
(* An optional value (Python None or a value) is a sequence of length 0    *)
(* or 1.                                                                   *)
(***************************************************************************)
EXTENDS Naturals, Integers, Sequences, FiniteSets

VARIABLES
    pc,                   \* position of the control thread in run_monitor
    clock,                \* the wall clock, as read by datetime.now()
    ticks,                \* connectivity checks started by the control loop
    is_connected,         \* self.is_connected
    disconnect_start,     \* self.disconnect_start (None or a time)
    last_successful_ping, \* self.last_successful_ping
    ping_targets,         \* self.ping_targets
    http_targets,         \* self.http_targets
    connectivity_log,     \* rows of connectivity.csv, header excluded
    speedtest_log,        \* rows of speedtest.csv, header excluded
    events_log,           \* rows of events.csv, header excluded
    verdicts,             \* history: the (verdict, now) pairs _handle_connection_state processed
    st_trace,             \* history: the tool invocations of the latest run_speedtest
    st_ret,               \* history: how the latest run_speedtest ended
    st_calls,             \* history: completed invocations of run_speedtest
    vps_enabled,          \* config: VPS.enabled
    speedtest_next,       \* schedule: next_run of the run_speedtest job (None before it is scheduled)
    upload_next,          \* schedule: next_run of the upload_logs job (None when there is none)
    runnable,             \* schedule.run_pending: the due jobs still to run in this tick
    uploads,              \* history: the times upload_logs copied the files
    reports,              \* history: generate_report invocations
    interrupted_at,       \* history: where the KeyboardInterrupt arrived (None or a pc)
    results,              \* test_connectivity: the local list `results`
    successful_tests,     \* test_connectivity: the local counter
    total_tests,          \* test_connectivity: the local counter
    existing,             \* the series whose file exists in the log directory
    corrupt,              \* the <<series, row>> places whose numeric cell float() rejects
    header_written,       \* history: the series whose header _init_csv_files wrote
    partial,              \* the series whose last row is on disk in part only
    observed              \* history: what a concurrent generate_report read

vars == <<pc, clock, ticks, is_connected, disconnect_start, last_successful_ping,
          ping_targets, http_targets, connectivity_log, speedtest_log, events_log,
          verdicts, st_trace, st_ret, st_calls, vps_enabled, speedtest_next,
          upload_next, runnable, uploads, reports, interrupted_at,
          results, successful_tests, total_tests,
          existing, corrupt, header_written, partial, observed>>

connVars  == <<is_connected, disconnect_start, last_successful_ping, events_log, verdicts>>
stateVars == <<is_connected, disconnect_start, last_successful_ping>>
speedVars == <<speedtest_log, st_trace, st_ret, st_calls>>
schedVars == <<vps_enabled, speedtest_next, upload_next, runnable, uploads>>
loopVars  == <<pc, ticks, reports, interrupted_at>>
cfgVars   == <<ping_targets, http_targets>>
probeVars == <<results, successful_tests, total_tests>>
diskVars  == <<existing, corrupt, header_written, partial, observed>>

\* ------------------------------------------------------------------ bounds

\* Longest verdict sequence fed to the state machine in SpecSM.
MaxVerdicts == 5
\* Largest clock advance between two successive connectivity checks in SpecSM.
MaxStep == 2
\* Largest number of configured targets (PING plus HTTP) in SpecProbe.
MaxProbes == 6
\* Connectivity checks run in SpecProbe.
MaxBatches == 1
\* Invocations of run_speedtest in SpecSpeed.
MaxRuns == 2
\* Connectivity checks the control loop starts in Spec.
MaxTicks == 3
\* Largest number of rows of an existing connectivity.csv, events.csv and
\* speedtest.csv in SpecReport.
MaxConnRows == 10
MaxEventRows == 2
MaxSpeedRows == 2
\* Largest number of operations on the monitor in SpecStore.
MaxStoreOps == 2
\* Largest number of reads of a concurrent report in SpecConcurrent.
MaxReads == 1
\* Configured PING targets and HTTP targets in Spec.
LoopPing == 1
LoopHttp == 1
\* The configured intervals in Spec, in clock units (--ping-interval,
\* --speedtest-interval, --upload-interval).
ping_interval == 1
speedtest_interval == 6
upload_interval == 4

\* ----------------------------------------------------------------- helpers

None == <<>>
Some(x) == <<x>>
Last(s) == s[Len(s)]

\* The time the process was constructed: the first datetime.now() of __init__.
StartTime == 0

\* ------------------------------------------------- connection state machine

\* The object's ConnectionState fields as one value.
ConnState ==
    [is_connected         |-> is_connected,
     disconnect_start     |-> disconnect_start,
     last_successful_ping |-> last_successful_ping]

\* Lines 70-73: the state __init__ leaves.
ConnInit(now) ==
    [is_connected         |-> TRUE,
     disconnect_start     |-> None,
     last_successful_ping |-> now]

\* Line 219: (now - self.disconnect_start).total_seconds().
Duration(s, now) == now - s.disconnect_start[1]

\* Lines 225-230: the row written to events.csv.
DisconnectRow(s, now) ==
    [timestamp        |-> s.disconnect_start[1],
     event_type       |-> "disconnect",
     duration_seconds |-> Duration(s, now),
     details          |-> <<s.disconnect_start[1], now>>]

\* EmittedEvents with the test of line 216 dropped: a row is written on every
\* verdict processed while disconnect_start is set.
EmittedEvents_WheneverStarted(s, connected, now) ==
    IF s.disconnect_start # None
    THEN <<DisconnectRow(s, now)>>
    ELSE <<>>

\* EmittedEvents writing the row when the connection is lost instead of when
\* it is restored.
EmittedEvents_OnLoss(s, connected, now) ==
    IF ~connected /\ s.is_connected
    THEN <<DisconnectRow([s EXCEPT !.disconnect_start = Some(now)], now)>>
    ELSE <<>>

\* Lines 216-230: the rows _handle_connection_state appends to events.csv.
EmittedEvents(s, connected, now) ==
    IF connected /\ ~s.is_connected /\ s.disconnect_start # None
    THEN <<DisconnectRow(s, now)>>
    ELSE <<>>

\* Transition without the reset of line 233.
Transition_KeepStart(s, connected, now) ==
    IF connected /\ ~s.is_connected
    THEN [is_connected |-> TRUE, disconnect_start |-> s.disconnect_start,
          last_successful_ping |-> now]
    ELSE IF ~connected /\ s.is_connected
    THEN [s EXCEPT !.is_connected = FALSE, !.disconnect_start = Some(now)]
    ELSE IF connected
    THEN [s EXCEPT !.last_successful_ping = now]
    ELSE s

\* Transition with line 236 testing `not connected` alone: every false verdict
\* restarts the outage.
Transition_RestartOnFalse(s, connected, now) ==
    IF connected /\ ~s.is_connected
    THEN [is_connected |-> TRUE, disconnect_start |-> None,
          last_successful_ping |-> now]
    ELSE IF ~connected
    THEN [s EXCEPT !.is_connected = FALSE, !.disconnect_start = Some(now)]
    ELSE IF connected
    THEN [s EXCEPT !.last_successful_ping = now]
    ELSE s

\* Transition with line 240 dating the outage from the last successful probe.
Transition_InferStart(s, connected, now) ==
    IF connected /\ ~s.is_connected
    THEN [is_connected |-> TRUE, disconnect_start |-> None,
          last_successful_ping |-> now]
    ELSE IF ~connected /\ s.is_connected
    THEN [s EXCEPT !.is_connected = FALSE,
                   !.disconnect_start = Some(s.last_successful_ping)]
    ELSE IF connected
    THEN [s EXCEPT !.last_successful_ping = now]
    ELSE s

\* Transition without the branch of lines 242-244.
Transition_NoAdvance(s, connected, now) ==
    IF connected /\ ~s.is_connected
    THEN [is_connected |-> TRUE, disconnect_start |-> None,
          last_successful_ping |-> now]
    ELSE IF ~connected /\ s.is_connected
    THEN [s EXCEPT !.is_connected = FALSE, !.disconnect_start = Some(now)]
    ELSE s

\* Lines 216, 232-244: the fields _handle_connection_state assigns.
Transition(s, connected, now) ==
    IF connected /\ ~s.is_connected
    THEN [is_connected |-> TRUE, disconnect_start |-> None,
          last_successful_ping |-> now]
    ELSE IF ~connected /\ s.is_connected
    THEN [s EXCEPT !.is_connected = FALSE, !.disconnect_start = Some(now)]
    ELSE IF connected
    THEN [s EXCEPT !.last_successful_ping = now]
    ELSE s

\* Lines 212-244: _handle_connection_state(connected), with now = datetime.now().
_handle_connection_state(connected, now) ==
    /\ events_log' = events_log \o EmittedEvents(ConnState, connected, now)
    /\ is_connected' = Transition(ConnState, connected, now).is_connected
    /\ disconnect_start' = Transition(ConnState, connected, now).disconnect_start
    /\ last_successful_ping' = Transition(ConnState, connected, now).last_successful_ping
    /\ verdicts' = Append(verdicts, [v |-> connected, t |-> now])

\* ------------------------------------------------------------ construction

\* A list of n targets of one method; a target is named by its method and its
\* place in the list.
TargetList(method, n) == [i \in 1..n |-> <<method, i>>]

\* Lines 76-80 and 82-86: three PING and three HTTP targets.
NumDefaultPing == 3
NumDefaultHttp == 3
DefaultPingTargets == TargetList("ping", NumDefaultPing)
DefaultHttpTargets == TargetList("http", NumDefaultHttp)

\* Lines 21-86: the fields __init__ sets; the histories are empty.
Fields(pt, ht, vps) ==
    /\ clock = StartTime
    /\ ticks = 0
    /\ is_connected = ConnInit(StartTime).is_connected
    /\ disconnect_start = ConnInit(StartTime).disconnect_start
    /\ last_successful_ping = ConnInit(StartTime).last_successful_ping
    /\ ping_targets = pt
    /\ http_targets = ht
    /\ verdicts = <<>>
    /\ st_trace = <<>>
    /\ st_ret = "none"
    /\ st_calls = 0
    /\ vps_enabled = vps
    /\ speedtest_next = None
    /\ upload_next = None
    /\ runnable = <<>>
    /\ uploads = <<>>
    /\ reports = <<>>
    /\ interrupted_at = None
    /\ results = <<>>
    /\ successful_tests = 0
    /\ total_tests = 0

\* The three series of the log directory (lines 62-64).
Series == {"connectivity", "speedtest", "events"}

\* The log directory: the rows of the three files, the files that exist, the
\* damaged cells, and no write or read in progress.
Files(conn, sp, ev, ex, cor) ==
    /\ connectivity_log = conn
    /\ speedtest_log = sp
    /\ events_log = ev
    /\ existing = ex
    /\ corrupt = cor
    /\ partial = {}
    /\ observed = <<>>

\* Lines 21-86: the monitor constructed in an empty log directory;
\* _init_csv_files (line 68) creates the three files with their headers.
Construct(pt, ht, vps) ==
    /\ Fields(pt, ht, vps)
    /\ Files(<<>>, <<>>, <<>>, Series, {})
    /\ header_written = Series

\* ------------------------------------------- SpecSM: the state machine alone

InitSM ==
    /\ Construct(DefaultPingTargets, DefaultHttpTargets, FALSE)
    /\ pc = "idle"

\* A caller feeds one verdict; the clock has advanced since the previous one.
FeedVerdict ==
    /\ Len(verdicts) < MaxVerdicts
    /\ \E connected \in BOOLEAN, d \in 1..MaxStep :
          /\ clock' = clock + d
          /\ _handle_connection_state(connected, clock + d)
    /\ UNCHANGED <<connectivity_log, speedVars, schedVars, loopVars, cfgVars, diskVars, probeVars>>

NextSM == FeedVerdict

SpecSM == InitSM /\ [][NextSM]_vars

\* ------------------------------------------------------- connectivity check

\* What one ping subprocess can do: exit 0 with or without a "time=" field,
\* exit non-zero, exceed the 8 s timeout, or fail to start.
PingOutcomes == {"reply", "reply_notime", "nonzero", "timeout", "error"}

\* What one HTTP GET can do: answer with a status code, or raise.
HttpOutcomes == {"200", "302", "404", "RequestException", "error"}

\* Line 143: the status codes that count as reachable.
HttpSuccessCodes == {"200", "301", "302", "303", "307", "308"}

\* Lines 109-133: ping_test(target) -> (success, response_time); the response
\* time is a value (the parsed time, or 0) or None.
ping_test(o) ==
    IF o \in {"reply", "reply_notime"}
    THEN [success |-> TRUE, response_time |-> Some("ms")]
    ELSE [success |-> FALSE, response_time |-> None]

\* Lines 135-153: http_test(url) -> (success, response_time).
http_test(o) ==
    IF o \in HttpSuccessCodes
    THEN [success |-> TRUE, response_time |-> Some("ms")]
    ELSE [success |-> FALSE, response_time |-> None]

\* Lines 164-170 and 178-184: the result appended for one probe.
ResultRow(r, target, method, now) ==
    [timestamp        |-> now,
     status           |-> IF r.success THEN "connected" ELSE "disconnected",
     target           |-> target,
     response_time_ms |-> r.response_time,
     method           |-> method]

\* Verdict with >= for >.
Verdict_AtLeastHalf(successful, total) == 2 * successful >= total

\* Line 190: connected = successful_tests > (total_tests * 0.5); the counters
\* are integers, so this is 2 * successful_tests > total_tests.
Verdict(successful, total) == 2 * successful > total

\* Line 454 entering lines 157-159: a connectivity check starts.
BeginCheck(limit) ==
    /\ pc = "check"
    /\ ticks < limit
    /\ ticks' = ticks + 1
    /\ results' = <<>>
    /\ successful_tests' = 0
    /\ total_tests' = 0
    /\ pc' = "probing"
    /\ UNCHANGED <<clock, connVars, connectivity_log, speedVars, schedVars,
                   cfgVars, diskVars, reports, interrupted_at>>

\* ProbePing with the row of a failed probe left out of the batch.
ProbePing_DropFailedRow ==
    /\ pc = "probing"
    /\ Len(results) < Len(ping_targets)
    /\ \E o \in PingOutcomes :
          /\ results' =
                 IF ping_test(o).success
                 THEN Append(results,
                             ResultRow(ping_test(o),
                                       ping_targets[Len(results) + 1],
                                       "ping", clock + 1))
                 ELSE results
          /\ successful_tests' =
                 IF ping_test(o).success THEN successful_tests + 1
                                         ELSE successful_tests
    /\ total_tests' = total_tests + 1
    /\ clock' = clock + 1
    /\ UNCHANGED <<connVars, connectivity_log, speedVars, schedVars, loopVars,
                   cfgVars, diskVars>>

\* Lines 162-173: one iteration of the PING loop.
ProbePing ==
    /\ pc = "probing"
    /\ Len(results) < Len(ping_targets)
    /\ \E o \in PingOutcomes :
          /\ results' = Append(results,
                 ResultRow(ping_test(o), ping_targets[Len(results) + 1],
                           "ping", clock + 1))
          /\ successful_tests' =
                 IF ping_test(o).success THEN successful_tests + 1
                                         ELSE successful_tests
    /\ total_tests' = total_tests + 1
    /\ clock' = clock + 1
    /\ UNCHANGED <<connVars, connectivity_log, speedVars, schedVars, loopVars,
                   cfgVars, diskVars>>

\* Lines 176-187: one iteration of the HTTP loop.
ProbeHttp ==
    /\ pc = "probing"
    /\ Len(results) >= Len(ping_targets)
    /\ Len(results) < Len(ping_targets) + Len(http_targets)
    /\ \E o \in HttpOutcomes :
          /\ results' = Append(results,
                 ResultRow(http_test(o),
                           http_targets[Len(results) - Len(ping_targets) + 1],
                           "http", clock + 1))
          /\ successful_tests' =
                 IF http_test(o).success THEN successful_tests + 1
                                         ELSE successful_tests
    /\ total_tests' = total_tests + 1
    /\ clock' = clock + 1
    /\ UNCHANGED <<connVars, connectivity_log, speedVars, schedVars, loopVars,
                   cfgVars, diskVars>>

\* Lines 189-210: the verdict, the rows appended to connectivity.csv and the
\* call of _handle_connection_state; control returns to `ret`.
FinishCheck(ret) ==
    /\ pc = "probing"
    /\ Len(results) = Len(ping_targets) + Len(http_targets)
    /\ connectivity_log' = connectivity_log \o results
    /\ clock' = clock + 1
    /\ _handle_connection_state(Verdict(successful_tests, total_tests), clock + 1)
    /\ pc' = ret
    /\ UNCHANGED <<ticks, reports, interrupted_at, speedVars, schedVars,
                   cfgVars, diskVars, probeVars>>

\* ------------------------------------- SpecProbe: connectivity checks alone

\* Any configuration of at least one and at most MaxProbes targets.
InitProbe ==
    \E np \in 0..MaxProbes :
       \E nh \in 0..(MaxProbes - np) :
          /\ np + nh >= 1
          /\ Construct(TargetList("ping", np), TargetList("http", nh), FALSE)
          /\ pc = "check"

NextProbe ==
    \/ BeginCheck(MaxBatches)
    \/ ProbePing
    \/ ProbeHttp
    \/ FinishCheck("check")

SpecProbe == InitProbe /\ [][NextProbe]_vars

\* ---------------------------------------------------------------- speed test

\* What one invocation of an external speed-test tool can do: the executable
\* is absent (FileNotFoundError), it exits non-zero, it exceeds the 120 s
\* bound (TimeoutExpired), it exits 0 with output the parser rejects, or it
\* exits 0 with valid output.
ToolOutcomes == {"absent", "nonzero", "timeout", "unparseable", "ok"}

Primary  == "speedtest"
Fallback == "speedtest-cli"

\* The result of a block of code: values parsed from a tool's output, or a
\* raised exception.
Ok(tool) == [kind |-> "ok", source |-> tool, exc |-> "none"]
Raise(e) == [kind |-> "exc", source |-> "none", exc |-> e]

\* One entry of the invocation history.
Attempt(tool, o) == [tool |-> tool, outcome |-> o]

\* Lines 276-287: the handler of FileNotFoundError runs the fallback tool;
\* g is what that invocation does.
FallbackInHandler(g) ==
    [trace |-> <<Attempt(Fallback, g)>>,
     res   |-> CASE g = "ok"          -> Ok(Fallback)
                 [] g = "nonzero"     -> Raise("Exception: speedtest CLI not found")
                 [] g = "unparseable" -> Raise("JSONDecodeError")
                 [] g = "absent"      -> Raise("FileNotFoundError")
                 [] g = "timeout"     -> Raise("TimeoutExpired")]

\* FallbackInTry with line 267 testing the primary's return code again.
FallbackInTry_StaleResult(f, g) ==
    IF f = "absent"
    THEN [trace |-> <<Attempt(Fallback, f)>> \o FallbackInHandler(g).trace,
          res   |-> FallbackInHandler(g).res]
    ELSE [trace |-> <<Attempt(Fallback, f)>>,
          res   |-> CASE f = "ok"          -> Raise("Exception: Both speedtest CLIs failed")
                      [] f = "nonzero"     -> Raise("Exception: Both speedtest CLIs failed")
                      [] f = "unparseable" -> Raise("JSONDecodeError")
                      [] f = "timeout"     -> Raise("TimeoutExpired")]

\* Lines 264-274: the fallback after a non-zero exit of the primary tool; it
\* runs inside the try of line 253, so its FileNotFoundError enters the
\* handler of line 276, which invokes the fallback tool once more.
FallbackInTry(f, g) ==
    IF f = "absent"
    THEN [trace |-> <<Attempt(Fallback, f)>> \o FallbackInHandler(g).trace,
          res   |-> FallbackInHandler(g).res]
    ELSE [trace |-> <<Attempt(Fallback, f)>>,
          res   |-> CASE f = "ok"          -> Ok(Fallback)
                      [] f = "nonzero"     -> Raise("Exception: Both speedtest CLIs failed")
                      [] f = "unparseable" -> Raise("JSONDecodeError")
                      [] f = "timeout"     -> Raise("TimeoutExpired")]

\* InnerTry raising at once on a non-zero exit of the primary tool.
InnerTry_NoFallbackOnNonzero(p, f, g) ==
    CASE p = "ok"          -> [trace |-> <<Attempt(Primary, p)>>, res |-> Ok(Primary)]
      [] p = "unparseable" -> [trace |-> <<Attempt(Primary, p)>>, res |-> Raise("JSONDecodeError")]
      [] p = "timeout"     -> [trace |-> <<Attempt(Primary, p)>>, res |-> Raise("TimeoutExpired")]
      [] p = "nonzero"     -> [trace |-> <<Attempt(Primary, p)>>,
                               res   |-> Raise("Exception: Both speedtest CLIs failed")]
      [] p = "absent"      -> [trace |-> <<Attempt(Primary, p)>> \o FallbackInHandler(g).trace,
                               res   |-> FallbackInHandler(g).res]

\* Lines 252-287: the inner try statement; p is what the primary tool does,
\* f what the fallback tool does at line 266 and g what it does at line 279.
InnerTry(p, f, g) ==
    CASE p = "ok"          -> [trace |-> <<Attempt(Primary, p)>>, res |-> Ok(Primary)]
      [] p = "unparseable" -> [trace |-> <<Attempt(Primary, p)>>, res |-> Raise("JSONDecodeError")]
      [] p = "timeout"     -> [trace |-> <<Attempt(Primary, p)>>, res |-> Raise("TimeoutExpired")]
      [] p = "nonzero"     -> [trace |-> <<Attempt(Primary, p)>> \o FallbackInTry(f, g).trace,
                               res   |-> FallbackInTry(f, g).res]
      [] p = "absent"      -> [trace |-> <<Attempt(Primary, p)>> \o FallbackInHandler(g).trace,
                               res   |-> FallbackInHandler(g).res]

\* CaughtByExceptException for a handler that catches only the exceptions
\* run_speedtest raises itself.
CaughtByExceptException_OnlyRaised(e) ==
    e \in {"Exception: Both speedtest CLIs failed",
           "Exception: speedtest CLI not found"}

\* Line 305: `except Exception` catches every exception class raised in the
\* try block (all of them derive from Exception).
CaughtByExceptException(e) ==
    e \in {"Exception: Both speedtest CLIs failed",
           "Exception: speedtest CLI not found",
           "FileNotFoundError", "TimeoutExpired", "JSONDecodeError"}

\* Lines 292-301: the row of a successful test; the values are those parsed
\* from the output of tool `source`.
SuccessRow(source, now) ==
    [timestamp      |-> now,
     download_mbps  |-> Some(source),
     upload_mbps    |-> Some(source),
     ping_ms        |-> Some(source),
     server         |-> Some(source),
     status         |-> "success",
     failure_reason |-> None]

\* Lines 309-315: the row of a failed test; the status column 'failed: <e>'
\* is the status and the reason.
FailedRow(e, now) ==
    [timestamp      |-> now,
     download_mbps  |-> None,
     upload_mbps    |-> None,
     ping_ms        |-> None,
     server         |-> None,
     status         |-> "failed",
     failure_reason |-> Some(e)]

\* Lines 248-317: what the outer try statement does with the inner result:
\* the rows it appends and how run_speedtest ends.
Complete(r, now) ==
    IF r.kind = "ok"
    THEN [rows |-> <<SuccessRow(r.source, now)>>, ret |-> "True"]
    ELSE IF CaughtByExceptException(r.exc)
    THEN [rows |-> <<FailedRow(r.exc, now)>>, ret |-> "False"]
    ELSE [rows |-> <<>>, ret |-> "raised"]

\* run_speedtest taking a successful test as a successful probe.
run_speedtest_MarksAlive(p, f, g) ==
    /\ clock' = clock + 1
    /\ speedtest_log' = speedtest_log \o Complete(InnerTry(p, f, g).res, clock + 1).rows
    /\ st_ret' = Complete(InnerTry(p, f, g).res, clock + 1).ret
    /\ st_trace' = InnerTry(p, f, g).trace
    /\ st_calls' = st_calls + 1
    /\ last_successful_ping' =
           (IF Complete(InnerTry(p, f, g).res, clock + 1).ret = "True"
            THEN clock + 1 ELSE last_successful_ping)
    /\ UNCHANGED <<is_connected, disconnect_start>>

\* Lines 246-317: run_speedtest().
run_speedtest(p, f, g) ==
    /\ clock' = clock + 1
    /\ speedtest_log' = speedtest_log \o Complete(InnerTry(p, f, g).res, clock + 1).rows
    /\ st_ret' = Complete(InnerTry(p, f, g).res, clock + 1).ret
    /\ st_trace' = InnerTry(p, f, g).trace
    /\ st_calls' = st_calls + 1
    /\ UNCHANGED stateVars

\* ------------------------------------------ SpecSpeed: speed tests alone

InitSpeed ==
    /\ Construct(DefaultPingTargets, DefaultHttpTargets, FALSE)
    /\ pc = "idle"

InvokeSpeedtest ==
    /\ st_calls < MaxRuns
    /\ \E p \in ToolOutcomes, f \in ToolOutcomes, g \in ToolOutcomes :
          run_speedtest(p, f, g)
    /\ UNCHANGED <<events_log, verdicts, connectivity_log, schedVars, loopVars, cfgVars, diskVars,
                   probeVars>>

NextSpeed == InvokeSpeedtest

SpecSpeed == InitSpeed /\ [][NextSpeed]_vars

\* ------------------------------------------------------ report and upload

\* Lines 335-336: the rows of connectivity.csv and those with status disconnected.
FailedTests(log) == Cardinality({i \in 1..Len(log) : log[i].status = "disconnected"})

\* Line 350: the rows of events.csv with event_type disconnect.
Disconnects(log) == {i \in 1..Len(log) : log[i].event_type = "disconnect"}

\* Line 353: sum(float(d['duration_seconds']) for d in disconnects).
RECURSIVE TotalDowntime(_)
TotalDowntime(log) ==
    IF log = <<>> THEN 0
    ELSE (IF log[1].event_type = "disconnect" THEN log[1].duration_seconds ELSE 0)
         + TotalDowntime(Tail(log))

\* Line 367: the rows of speedtest.csv with status success.
SuccessfulTests(log) == Cardinality({i \in 1..Len(log) : log[i].status = "success"})

\* float(cell) succeeds on the numeric cells of row i of a series.
Parses(series, i) == <<series, i>> \notin corrupt

\* success_rate as the share of the disconnected rows.
success_rate_FailedShare(total, failed) ==
    IF total > 0 THEN [num |-> failed * 100, den |-> total]
                 ELSE [num |-> 0, den |-> 1]

\* Line 337: ((total_tests - failed_tests) / total_tests * 100) if
\* total_tests > 0 else 0; the quotient is kept as a fraction.
success_rate(total, failed) ==
    IF total > 0 THEN [num |-> (total - failed) * 100, den |-> total]
                 ELSE [num |-> 0, den |-> 1]

\* Lines 330-342: the connectivity section, written when the file exists.
ConnectivitySummary ==
    IF "connectivity" \in existing
    THEN Some([total_tests  |-> Len(connectivity_log),
               failed_tests |-> FailedTests(connectivity_log),
               success_rate |-> success_rate(Len(connectivity_log),
                                             FailedTests(connectivity_log))])
    ELSE None

\* DisconnectionSummary averaging over every row of events.csv.
DisconnectionSummary_OverAllRows ==
    IF "events" \notin existing \/ Disconnects(events_log) = {}
    THEN [raised |-> FALSE, section |-> None]
    ELSE IF \E i \in Disconnects(events_log) : ~Parses("events", i)
    THEN [raised |-> TRUE, section |-> None]
    ELSE [raised  |-> FALSE,
          section |-> Some(
              [disconnections |-> Cardinality(Disconnects(events_log)),
               total_downtime |-> TotalDowntime(events_log),
               avg_disconnect_duration |->
                   [num |-> TotalDowntime(events_log),
                    den |-> Len(events_log)]])]

\* Lines 345-359: the disconnection section, written when the file exists and
\* has a disconnect row; float() of line 353 raises ValueError on a cell it
\* rejects.
DisconnectionSummary ==
    IF "events" \notin existing \/ Disconnects(events_log) = {}
    THEN [raised |-> FALSE, section |-> None]
    ELSE IF \E i \in Disconnects(events_log) : ~Parses("events", i)
    THEN [raised |-> TRUE, section |-> None]
    ELSE [raised  |-> FALSE,
          section |-> Some(
              [disconnections |-> Cardinality(Disconnects(events_log)),
               total_downtime |-> TotalDowntime(events_log),
               avg_disconnect_duration |->
                   [num |-> TotalDowntime(events_log),
                    den |-> Cardinality(Disconnects(events_log))]])]

\* Lines 362-379: the speed-test section, written when the file exists and
\* has a row with status success; float() of lines 370-371 raises ValueError
\* on a cell it rejects.
SpeedTestSummary ==
    LET ok == {i \in 1..Len(speedtest_log) : speedtest_log[i].status = "success"}
    IN  IF "speedtest" \notin existing \/ ok = {}
        THEN [raised |-> FALSE, section |-> None]
        ELSE IF \E i \in ok : ~Parses("speedtest", i)
        THEN [raised |-> TRUE, section |-> None]
        ELSE [raised  |-> FALSE,
              section |-> Some([speed_tests      |-> Len(speedtest_log),
                                successful_tests |-> SuccessfulTests(speedtest_log)])]

\* Lines 319-386: generate_report(). The sections are written in order inside
\* one try statement: an exception in a section ends the function in the
\* handler of line 384, which returns None; the sections written before it
\* stay in the file, the later ones are not produced.
generate_report ==
    /\ reports' = Append(reports,
        [generated_at   |-> clock,
         returned       |-> ~DisconnectionSummary.raised /\ ~SpeedTestSummary.raised,
         connectivity   |-> ConnectivitySummary,
         disconnections |-> DisconnectionSummary.section,
         speed          |-> IF DisconnectionSummary.raised
                            THEN None ELSE SpeedTestSummary.section])
    /\ UNCHANGED stateVars

\* Lines 388-432: upload_logs(): the files are copied to the remote host, or
\* the failure is logged; nothing of the monitor changes.
upload_logs ==
    /\ uploads' = (IF vps_enabled THEN Append(uploads, clock + 1) ELSE uploads)
    /\ clock' = clock + 1
    /\ UNCHANGED stateVars

\* ------------------- SpecReport: `--report` over an existing log directory

\* The sequences over S of length at most n.
SeqsUpTo(S, n) == UNION {[1..k -> S] : k \in 0..n}

\* A row an earlier run appended to connectivity.csv.
ExistingConnRow(ok) ==
    ResultRow([success |-> ok, response_time |-> None], <<"ping", 1>>, "ping",
              StartTime)

\* The values of duration_seconds in an existing events.csv.
Durations == {30, 90}

\* The rows of an existing events.csv: disconnect rows and rows of another
\* event type.
ExistingEventRows ==
    {[timestamp |-> StartTime, event_type |-> "disconnect",
      duration_seconds |-> d, details |-> <<StartTime, StartTime>>] :
        d \in Durations}
    \cup {[timestamp |-> StartTime, event_type |-> "note",
           duration_seconds |-> 0, details |-> <<StartTime, StartTime>>]}

\* The rows of an existing speedtest.csv.
ExistingSpeedRows ==
    {SuccessRow(Primary, StartTime), FailedRow("TimeoutExpired", StartTime)}

\* The rows of events.csv and speedtest.csv whose numeric cells may have been
\* damaged since they were written.
Places(ev, sp) ==
    {<<"events", i>> : i \in 1..Len(ev)} \cup {<<"speedtest", i>> : i \in 1..Len(sp)}

\* Lines 485-491: main() constructs the monitor over a log directory that
\* holds the three files: _init_csv_files writes nothing. Either
\* connectivity.csv holds up to MaxConnRows rows, or events.csv and
\* speedtest.csv hold a few rows, some of them damaged.
InitReport ==
    /\ Fields(DefaultPingTargets, DefaultHttpTargets, FALSE)
    /\ header_written = {}
    /\ pc = "constructed"
    /\ \/ \E conn \in SeqsUpTo({ExistingConnRow(TRUE), ExistingConnRow(FALSE)},
                               MaxConnRows) :
            Files(conn, <<>>, <<>>, Series, {})
       \/ \E ev \in SeqsUpTo(ExistingEventRows, MaxEventRows) :
            \E sp \in SeqsUpTo(ExistingSpeedRows, MaxSpeedRows) :
               \E cor \in SUBSET Places(ev, sp) :
                  Files(<<>>, sp, ev, Series, cor)

\* A file of the log directory is removed from outside before the report
\* reads it: exists() of lines 330, 345 and 362 is then False.
ExternalRemove ==
    /\ pc = "constructed"
    /\ \E s \in existing :
          /\ existing' = existing \ {s}
          /\ corrupt' = {c \in corrupt : c[1] # s}
          /\ connectivity_log' = (IF s = "connectivity" THEN <<>> ELSE connectivity_log)
          /\ speedtest_log' = (IF s = "speedtest" THEN <<>> ELSE speedtest_log)
          /\ events_log' = (IF s = "events" THEN <<>> ELSE events_log)
    /\ UNCHANGED <<loopVars, clock, stateVars, verdicts, st_trace, st_ret,
                   st_calls, schedVars, cfgVars, probeVars, header_written,
                   partial, observed>>

\* Lines 501-502: main() with --report calls generate_report and returns.
ReportOnly ==
    /\ pc = "constructed"
    /\ generate_report
    /\ pc' = "done"
    /\ UNCHANGED <<clock, ticks, interrupted_at, events_log, verdicts,
                   connectivity_log, speedVars, schedVars, cfgVars, diskVars,
                   probeVars>>

NextReport ==
    \/ ExternalRemove
    \/ ReportOnly

SpecReport == InitReport /\ [][NextReport]_vars

\* --------------- SpecStore: the operations of a monitor over existing files

\* _init_csv_files opening every file with mode 'w', existing or not.
_init_csv_files_Truncating ==
    /\ header_written' = Series
    /\ existing' = Series
    /\ connectivity_log' = <<>>
    /\ speedtest_log' = <<>>
    /\ events_log' = <<>>
    /\ corrupt' = {}

\* Lines 88-107: _init_csv_files(): a file that does not exist is created
\* with its header (mode 'w'); a file that exists is left as it is.
_init_csv_files ==
    /\ header_written' = header_written \cup (Series \ existing)
    /\ existing' = Series
    /\ UNCHANGED <<connectivity_log, speedtest_log, events_log, corrupt>>

\* The log directory before the process starts: any of the three files may
\* exist, holding a row of an earlier run.
InitStore ==
    /\ Fields(TargetList("ping", LoopPing), TargetList("http", LoopHttp), TRUE)
    /\ header_written = {}
    /\ pc = "boot"
    /\ \E ex \in SUBSET Series :
          \E e \in ExistingEventRows :
             Files(IF "connectivity" \in ex THEN <<ExistingConnRow(TRUE)>> ELSE <<>>,
                   IF "speedtest" \in ex THEN <<SuccessRow(Primary, StartTime)>>
                                         ELSE <<>>,
                   IF "events" \in ex THEN <<e>> ELSE <<>>,
                   ex, {})

\* Line 68: __init__ calls _init_csv_files.
BootMonitor ==
    /\ pc = "boot"
    /\ _init_csv_files
    /\ pc' = "check"
    /\ UNCHANGED <<clock, ticks, reports, interrupted_at, stateVars, verdicts,
                   st_trace, st_ret, st_calls, schedVars, cfgVars, probeVars,
                   partial, observed>>

\* The operations started so far, and room for one more.
StoreOps == ticks + st_calls + Len(reports) + Len(uploads)
StoreIdle == pc = "check" /\ StoreOps < MaxStoreOps

\* test_connectivity() is called.
StoreCheck == StoreIdle /\ BeginCheck(MaxStoreOps)

\* run_speedtest() is called.
StoreSpeedtest ==
    /\ StoreIdle
    /\ \E p \in ToolOutcomes, f \in ToolOutcomes, g \in ToolOutcomes :
          run_speedtest(p, f, g)
    /\ UNCHANGED <<events_log, verdicts, connectivity_log, schedVars, loopVars,
                   cfgVars, diskVars, probeVars>>

\* generate_report() is called.
StoreReport ==
    /\ StoreIdle
    /\ generate_report
    /\ UNCHANGED <<pc, clock, ticks, interrupted_at, events_log, verdicts,
                   connectivity_log, speedVars, schedVars, cfgVars, diskVars,
                   probeVars>>

\* upload_logs() is called.
StoreUpload ==
    /\ StoreIdle
    /\ upload_logs
    /\ UNCHANGED <<loopVars, events_log, verdicts, connectivity_log, speedVars,
                   vps_enabled, speedtest_next, upload_next, runnable, cfgVars,
                   diskVars, probeVars>>

NextStore ==
    \/ BootMonitor
    \/ StoreCheck
    \/ ProbePing
    \/ ProbeHttp
    \/ FinishCheck("check")
    \/ StoreSpeedtest
    \/ StoreReport
    \/ StoreUpload

SpecStore == InitStore /\ [][NextStore]_vars

\* ------- SpecConcurrent: a `--report` process beside a running monitor

\* The rows of the current batch that are on disk, in whole or in part.
Flushed == Len(connectivity_log) - (ticks - 1) * (Len(ping_targets) + Len(http_targets))

\* Lines 195-205: the rows go through csv.writer into the buffered file
\* object; leaving the with statement writes the buffer to the file. Nothing
\* in the code makes that write one indivisible step for another process
\* (no lock, no rename of a complete file): the bytes can reach the file up
\* to a point inside row k, the rest following later.
FlushBegin ==
    /\ pc = "probing"
    /\ Len(results) = Len(ping_targets) + Len(http_targets)
    /\ \E k \in 1..Len(results) :
          connectivity_log' = connectivity_log \o SubSeq(results, 1, k)
    /\ partial' = partial \cup {"connectivity"}
    /\ pc' = "flushing"
    /\ UNCHANGED <<clock, ticks, reports, interrupted_at, connVars, speedVars,
                   schedVars, cfgVars, probeVars, existing, corrupt,
                   header_written, observed>>

\* Lines 205-210: the rest of the buffer reaches the file, then
\* _handle_connection_state is called.
FlushEnd ==
    /\ pc = "flushing"
    /\ connectivity_log' =
           connectivity_log \o SubSeq(results, Flushed + 1, Len(results))
    /\ partial' = partial \ {"connectivity"}
    /\ clock' = clock + 1
    /\ _handle_connection_state(Verdict(successful_tests, total_tests), clock + 1)
    /\ pc' = "check"
    /\ UNCHANGED <<ticks, reports, interrupted_at, speedVars, schedVars,
                   cfgVars, probeVars, existing, corrupt, header_written,
                   observed>>

\* Lines 330-333 in another process started with --report on the same log
\* directory: list(csv.DictReader(csvfile)) reads what connectivity.csv holds
\* at that moment.
ConcurrentRead ==
    /\ Len(observed) < MaxReads
    /\ observed' = Append(observed,
           [series |-> "connectivity",
            rows   |-> Len(connectivity_log),
            torn   |-> "connectivity" \in partial])
    /\ UNCHANGED <<loopVars, clock, connVars, connectivity_log, speedVars,
                   schedVars, cfgVars, probeVars, existing, corrupt,
                   header_written, partial>>

InitConcurrent ==
    /\ Construct(TargetList("ping", LoopPing), TargetList("http", LoopHttp), FALSE)
    /\ pc = "check"

NextConcurrent ==
    \/ BeginCheck(MaxTicks)
    \/ ProbePing
    \/ ProbeHttp
    \/ FinishCheck("check")
    \/ FlushBegin
    \/ FlushEnd
    \/ ConcurrentRead

SpecConcurrent == InitConcurrent /\ [][NextConcurrent]_vars

\* ------------------------------------------------- run_monitor: control loop

\* Lines 436-446: the periodic jobs are scheduled; a job's next_run is the
\* time it was scheduled plus its interval.
StartMonitor ==
    /\ pc = "start"
    /\ speedtest_next' = Some(clock + speedtest_interval)
    /\ upload_next' = (IF vps_enabled THEN Some(clock + upload_interval) ELSE None)
    /\ pc' = "init_speedtest"
    /\ UNCHANGED <<clock, ticks, reports, interrupted_at, connVars,
                   connectivity_log, speedVars, vps_enabled, runnable, uploads,
                   cfgVars, diskVars, probeVars>>

\* Line 449: the initial speed test, before the try statement of line 451.
InitialSpeedtest ==
    /\ pc = "init_speedtest"
    /\ \E p \in ToolOutcomes, f \in ToolOutcomes, g \in ToolOutcomes :
          run_speedtest(p, f, g)
    /\ pc' = (IF st_ret' = "raised" THEN "crashed" ELSE "check")
    /\ UNCHANGED <<ticks, reports, interrupted_at, events_log, verdicts, connectivity_log,
                   schedVars, cfgVars, diskVars, probeVars>>

\* Due without the comparison with the clock.
Due_Scheduled(next_run) == next_run # None

\* schedule's Job.should_run: datetime.now() >= next_run.
Due(next_run) == next_run # None /\ clock >= next_run[1]

\* Line 457, schedule.run_pending(): the due jobs, sorted by next_run (the
\* sort is stable: run_speedtest was scheduled first).
DueJobs ==
    LET st == Due(speedtest_next)
        up == Due(upload_next)
    IN  IF st /\ up
        THEN (IF upload_next[1] < speedtest_next[1]
              THEN <<"upload_logs", "run_speedtest">>
              ELSE <<"run_speedtest", "upload_logs">>)
        ELSE IF st THEN <<"run_speedtest">>
        ELSE IF up THEN <<"upload_logs">>
        ELSE <<>>

\* Line 457: run_pending collects the due jobs.
RunPending ==
    /\ pc = "pending"
    /\ runnable' = DueJobs
    /\ pc' = "jobs"
    /\ UNCHANGED <<clock, ticks, reports, interrupted_at, connVars,
                   connectivity_log, speedVars, vps_enabled, speedtest_next,
                   upload_next, uploads, cfgVars, diskVars, probeVars>>

\* Line 457: run_pending runs the run_speedtest job and reschedules it.
JobSpeedtest ==
    /\ pc = "jobs"
    /\ runnable # <<>>
    /\ Head(runnable) = "run_speedtest"
    /\ \E p \in ToolOutcomes, f \in ToolOutcomes, g \in ToolOutcomes :
          run_speedtest(p, f, g)
    /\ speedtest_next' = Some(clock' + speedtest_interval)
    /\ runnable' = Tail(runnable)
    /\ pc' = (IF st_ret' = "raised" THEN "crashed" ELSE "jobs")
    /\ UNCHANGED <<ticks, reports, interrupted_at, events_log, verdicts, connectivity_log,
                   vps_enabled, upload_next, uploads, cfgVars, diskVars, probeVars>>

\* Line 457: run_pending runs the upload_logs job and reschedules it.
JobUpload ==
    /\ pc = "jobs"
    /\ runnable # <<>>
    /\ Head(runnable) = "upload_logs"
    /\ upload_logs
    /\ upload_next' = Some(clock' + upload_interval)
    /\ runnable' = Tail(runnable)
    /\ UNCHANGED <<loopVars, events_log, verdicts, connectivity_log, speedVars,
                   vps_enabled, speedtest_next, cfgVars, diskVars, probeVars>>

\* Line 457 returning: every due job has run.
JobsDone ==
    /\ pc = "jobs"
    /\ runnable = <<>>
    /\ pc' = "sleep"
    /\ UNCHANGED <<clock, ticks, reports, interrupted_at, connVars,
                   connectivity_log, speedVars, schedVars, cfgVars, diskVars, probeVars>>

\* Line 460: time.sleep(self.ping_interval).
Sleep ==
    /\ pc = "sleep"
    /\ clock' = clock + ping_interval
    /\ pc' = "check"
    /\ UNCHANGED <<ticks, reports, interrupted_at, connVars, connectivity_log,
                   speedVars, schedVars, cfgVars, diskVars, probeVars>>

\* The places of run_monitor inside the try statement of lines 451-460.
InsideTry == {"check", "probing", "pending", "jobs", "sleep"}

\* The places of run_monitor before it (lines 436-449).
OutsideTry == {"start", "init_speedtest"}

\* A KeyboardInterrupt arrives while the control thread is at lines 436-449:
\* nothing catches it (run_speedtest catches Exception only), run_monitor and
\* the process end.
InterruptOutsideTry ==
    /\ pc \in OutsideTry
    /\ interrupted_at' = Some(pc)
    /\ pc' = "done"
    /\ UNCHANGED <<clock, ticks, reports, connVars, connectivity_log,
                   speedVars, schedVars, cfgVars, diskVars, probeVars>>

\* InterruptInsideTry closing the outage in progress with an event row.
InterruptInsideTry_ClosesOutage ==
    /\ pc \in InsideTry
    /\ interrupted_at' = Some(pc)
    /\ pc' = "report"
    /\ events_log' =
           (IF disconnect_start # None
            THEN Append(events_log, DisconnectRow(ConnState, clock))
            ELSE events_log)
    /\ UNCHANGED <<clock, ticks, reports, stateVars, verdicts, connectivity_log,
                   speedVars, schedVars, cfgVars, diskVars, probeVars>>

\* A KeyboardInterrupt arrives while the control thread is at lines 452-460:
\* the handler of line 462 takes over.
InterruptInsideTry ==
    /\ pc \in InsideTry
    /\ interrupted_at' = Some(pc)
    /\ pc' = "report"
    /\ UNCHANGED <<clock, ticks, reports, connVars, connectivity_log,
                   speedVars, schedVars, cfgVars, diskVars, probeVars>>

\* Lines 462-464: the final report, then run_monitor returns.
FinalReport ==
    /\ pc = "report"
    /\ generate_report
    /\ pc' = "done"
    /\ UNCHANGED <<clock, ticks, interrupted_at, events_log, verdicts, connectivity_log,
                   speedVars, schedVars, cfgVars, diskVars, probeVars>>

\* Lines 485-504: main() constructs the monitor and calls run_monitor; the
\* upload may be enabled or not.
Init ==
    \E vps \in BOOLEAN :
       /\ Construct(TargetList("ping", LoopPing), TargetList("http", LoopHttp), vps)
       /\ pc = "start"

Next ==
    \/ StartMonitor
    \/ InitialSpeedtest
    \/ BeginCheck(MaxTicks)
    \/ ProbePing
    \/ ProbeHttp
    \/ FinishCheck("pending")
    \/ RunPending
    \/ JobSpeedtest
    \/ JobUpload
    \/ JobsDone
    \/ Sleep
    \/ InterruptOutsideTry
    \/ InterruptInsideTry
    \/ FinalReport

Spec == Init /\ [][Next]_vars

\* ------------------------------- SpecFault: run_monitor with failing I/O

\* Lines 195-196: open(self.connectivity_log, 'a') raises OSError (the disk is
\* full, the directory was removed, the permissions changed). No statement
\* of test_connectivity catches it and run_monitor catches KeyboardInterrupt
\* only (line 462): the exception leaves run_monitor.
CheckAppendFails ==
    /\ pc = "probing"
    /\ Len(results) = Len(ping_targets) + Len(http_targets)
    /\ clock' = clock + 1
    /\ pc' = "crashed"
    /\ UNCHANGED <<ticks, reports, interrupted_at, connVars, connectivity_log,
                   speedVars, schedVars, cfgVars, diskVars, probeVars>>

\* Lines 216-230: the rows of the check are appended, the verdict restores the
\* connection and open(self.events_log, 'a') of line 223 raises OSError: the
\* exception leaves _handle_connection_state before lines 232-233 update the
\* state, then test_connectivity and run_monitor.
EventWriteFails ==
    /\ pc = "probing"
    /\ Len(results) = Len(ping_targets) + Len(http_targets)
    /\ Verdict(successful_tests, total_tests)
    /\ ~is_connected
    /\ disconnect_start # None
    /\ connectivity_log' = connectivity_log \o results
    /\ clock' = clock + 1
    /\ pc' = "crashed"
    /\ UNCHANGED <<ticks, reports, interrupted_at, connVars, speedVars,
                   schedVars, cfgVars, diskVars, probeVars>>

\* Lines 292 and 309 in the scheduled run_speedtest: the tools have run, the
\* write of the row raises OSError, the handler of line 305 catches it and
\* its own write of line 309 raises again: the exception leaves
\* run_speedtest, schedule.run_pending and run_monitor.
SpeedtestWriteFails ==
    /\ pc = "jobs"
    /\ runnable # <<>>
    /\ Head(runnable) = "run_speedtest"
    /\ \E p \in ToolOutcomes, f \in ToolOutcomes, g \in ToolOutcomes :
          st_trace' = InnerTry(p, f, g).trace
    /\ st_ret' = "raised"
    /\ st_calls' = st_calls + 1
    /\ clock' = clock + 1
    /\ pc' = "crashed"
    /\ UNCHANGED <<ticks, reports, interrupted_at, connVars, connectivity_log,
                   speedtest_log, schedVars, cfgVars, diskVars, probeVars>>

\* Lines 414-432 in the scheduled upload_logs: scp fails (CalledProcessError)
\* or raises; the handlers of lines 429 and 431 log the failure and
\* upload_logs returns; run_pending reschedules the job.
JobUploadFails ==
    /\ pc = "jobs"
    /\ runnable # <<>>
    /\ Head(runnable) = "upload_logs"
    /\ vps_enabled
    /\ clock' = clock + 1
    /\ upload_next' = Some(clock' + upload_interval)
    /\ runnable' = Tail(runnable)
    /\ UNCHANGED <<loopVars, connVars, connectivity_log, speedVars,
                   vps_enabled, speedtest_next, uploads, cfgVars, diskVars, probeVars>>

NextFault ==
    \/ Next
    \/ CheckAppendFails
    \/ EventWriteFails
    \/ SpeedtestWriteFails
    \/ JobUploadFails

SpecFault == Init /\ [][NextFault]_vars

\* ---------------------------------------------- claims on the state machine

\* A verdict was processed in this step.
Fed == Len(verdicts') = Len(verdicts) + 1

\* The positions of the verdict history that restore connectivity: a true
\* verdict right after a false one (the machine starts CONNECTED).
Restorations(h) == {k \in 2..Len(h) : h[k].v /\ ~h[k - 1].v}

\* The n-th restoration of the history, in order.
NthRestoration(h, n) ==
    CHOOSE k \in Restorations(h) :
        Cardinality({x \in Restorations(h) : x <= k}) = n

\* The first false verdict of the run of false verdicts that ends at position k.
OutageStart(h, k) ==
    CHOOSE j \in 1..k :
        /\ \A i \in j..k : ~h[i].v
        /\ (j = 1 \/ h[j - 1].v)

\* C1: in every reachable state disconnect_start is set if and only if
\* is_connected is false.
C1_StartSetIffDisconnected == (disconnect_start # None) <=> ~is_connected

\* C1 witness: an outage is in progress after a completed one, and its start is set.
C1_Witness ==
    /\ Len(events_log) >= 1
    /\ ~is_connected
    /\ disconnect_start # None

\* C2: a DisconnectEvent row is appended exactly once per
\* CONNECTED->DISCONNECTED->CONNECTED cycle, in the step that processes the
\* restoring true verdict: never on a false verdict, never on a true verdict
\* while CONNECTED, never twice for one outage.
C2_EventOncePerCycle ==
    [][ LET restoring == Fed /\ Len(verdicts) >= 1
                             /\ ~Last(verdicts).v /\ Last(verdicts').v
        IN  /\ restoring =>
                /\ Len(events_log') = Len(events_log) + 1
                /\ SubSeq(events_log', 1, Len(events_log)) = events_log
            /\ ~restoring => events_log' = events_log
            /\ Len(events_log') = Cardinality(Restorations(verdicts')) ]_vars

\* C2 witness: two outages have been restored and two rows written.
C2_Witness ==
    /\ Cardinality(Restorations(verdicts)) = 2
    /\ Len(events_log) = 2

\* C3: every DisconnectEvent starts at the first false verdict of its outage
\* and lasts until the restoring true verdict; further false verdicts while
\* DISCONNECTED leave disconnect_start unchanged.
C3_DurationFromFirstFalse ==
    /\ Len(events_log) = Cardinality(Restorations(verdicts))
    /\ \A n \in 1..Len(events_log) :
          LET k == NthRestoration(verdicts, n)
              j == OutageStart(verdicts, k - 1)
          IN  /\ events_log[n].timestamp = verdicts[j].t
              /\ events_log[n].duration_seconds = verdicts[k].t - verdicts[j].t
    /\ (verdicts # <<>> /\ ~Last(verdicts).v) =>
          disconnect_start =
              Some(verdicts[OutageStart(verdicts, Len(verdicts))].t)

\* C3 witness: [true, false, false, true] gave one event of duration t3 - t1,
\* which differs from t3 - t2.
C3_Witness ==
    /\ Len(verdicts) = 4
    /\ verdicts[1].v /\ ~verdicts[2].v /\ ~verdicts[3].v /\ verdicts[4].v
    /\ Len(events_log) = 1
    /\ events_log[1].duration_seconds = verdicts[4].t - verdicts[2].t
    /\ events_log[1].duration_seconds # verdicts[4].t - verdicts[3].t

\* C4: a true verdict processed while CONNECTED appends no DisconnectEvent,
\* leaves is_connected true and disconnect_start unset, and only advances
\* last_successful_ping to the time of the check.
C4_TrueWhileConnectedOnlyAdvances ==
    [][ (Fed /\ is_connected /\ Last(verdicts').v) =>
            /\ events_log' = events_log
            /\ is_connected'
            /\ disconnect_start' = None
            /\ last_successful_ping' = Last(verdicts').t
            /\ UNCHANGED <<connectivity_log, speedtest_log>> ]_vars

\* C4 witness: three true verdicts in a row from the start, no event, and the
\* last successful probe is the latest check.
C4_Witness ==
    /\ Len(verdicts) = 3
    /\ \A i \in 1..3 : verdicts[i].v
    /\ events_log = <<>>
    /\ is_connected
    /\ last_successful_ping = verdicts[3].t

\* C6: the machine starts CONNECTED with disconnect_start unset, no
\* DisconnectEvent exists before a false verdict was processed, and when the
\* very first verdict is false the first event starts at the time of that
\* first check, not at process start.
C6_OptimisticStart ==
    /\ verdicts = <<>> => (is_connected /\ disconnect_start = None)
    /\ (\A i \in 1..Len(verdicts) : verdicts[i].v) => events_log = <<>>
    /\ (verdicts # <<>> /\ ~verdicts[1].v /\ ~is_connected /\ events_log = <<>>) =>
          disconnect_start = Some(verdicts[1].t)
    /\ (verdicts # <<>> /\ ~verdicts[1].v /\ events_log # <<>>) =>
          /\ events_log[1].timestamp = verdicts[1].t
          /\ events_log[1].timestamp # StartTime

\* C6 witness: the first verdict was false and its outage has been recorded.
C6_Witness ==
    /\ verdicts # <<>>
    /\ ~verdicts[1].v
    /\ events_log # <<>>
    /\ events_log[1].timestamp = verdicts[1].t

\* --------------------------------------------- claims on connectivity checks

\* The number of targets of a batch.
BatchSize == Len(ping_targets) + Len(http_targets)

\* The rows the i-th completed check appended to connectivity.csv.
BatchRows(i) == SubSeq(connectivity_log, (i - 1) * BatchSize + 1, i * BatchSize)

\* The number of rows of a batch with status connected.
Successes(rows) == Cardinality({k \in 1..Len(rows) : rows[k].status = "connected"})

\* C5: the verdict of every probe batch is (successful > total * 0.5): it is
\* connected exactly when more than half of the probes succeeded, so 2 of 4
\* and 3 of 6 are disconnected, 3 of 4 and 4 of 6 connected.
C5_StrictMajority ==
    \A i \in 1..Len(verdicts) :
       LET n == BatchSize
           k == Successes(BatchRows(i))
       IN  /\ Len(BatchRows(i)) = n
           /\ verdicts[i].v <=> (k >= (n \div 2) + 1)
           /\ (n = 4 /\ k = 2) => ~verdicts[i].v
           /\ (n = 4 /\ k = 3) => verdicts[i].v
           /\ (n = 6 /\ k = 3) => ~verdicts[i].v
           /\ (n = 6 /\ k = 4) => verdicts[i].v

\* C5 witness: with the default three PING and three HTTP targets, a check
\* with exactly three successful probes was judged disconnected.
C5_Witness ==
    /\ Len(ping_targets) = 3 /\ Len(http_targets) = 3
    /\ Len(verdicts) >= 1
    /\ Successes(BatchRows(1)) = 3
    /\ ~verdicts[1].v

\* ------------------------------------------------- claims on the speed test

\* The tools invoked by the latest run_speedtest.
ToolsTried == {st_trace[i].tool : i \in 1..Len(st_trace)}

\* C7: every invocation of run_speedtest, whatever the tools do, appends
\* exactly one row (success, or failed with a reason and empty numeric
\* fields) and returns normally.
C7_OneRowPerInvocation ==
    /\ Len(speedtest_log) = st_calls
    /\ st_calls > 0 =>
          /\ st_ret \in {"True", "False"}
          /\ st_ret = "True" <=> Last(speedtest_log).status = "success"
    /\ \A i \in 1..Len(speedtest_log) :
          LET row == speedtest_log[i]
          IN  \/ /\ row.status = "success"
                 /\ row.failure_reason = None
                 /\ row.download_mbps # None /\ row.upload_mbps # None
                 /\ row.ping_ms # None
              \/ /\ row.status = "failed"
                 /\ row.failure_reason # None
                 /\ row.download_mbps = None /\ row.upload_mbps = None
                 /\ row.ping_ms = None /\ row.server = None

\* C7 witness: two invocations, the first with both tools absent, the second
\* with the primary succeeding, left one failed and one success row.
C7_Witness ==
    /\ st_calls = 2
    /\ Len(speedtest_log) = 2
    /\ speedtest_log[1].status = "failed"
    /\ speedtest_log[1].failure_reason = Some("FileNotFoundError")
    /\ speedtest_log[2].status = "success"
    /\ st_ret = "True"

\* C8: when the primary tool fails and the fallback tool then exits 0 with
\* parseable output, run_speedtest appends a SUCCESS row with the fallback's
\* values and returns True; no FAILED row is written for that invocation.
C8_FallbackSuccess ==
    (/\ st_calls > 0
     /\ st_trace[1].tool = Primary /\ st_trace[1].outcome # "ok"
     /\ Last(st_trace).tool = Fallback /\ Last(st_trace).outcome = "ok")
    => /\ Len(speedtest_log) = st_calls
       /\ Last(speedtest_log).status = "success"
       /\ Last(speedtest_log).download_mbps = Some(Fallback)
       /\ Last(speedtest_log).upload_mbps = Some(Fallback)
       /\ Last(speedtest_log).server = Some(Fallback)
       /\ st_ret = "True"

\* C8 witness: the primary exited non-zero, the fallback succeeded, and the
\* row is a success sourced from the fallback.
C8_Witness ==
    /\ st_calls > 0
    /\ st_trace = <<Attempt(Primary, "nonzero"), Attempt(Fallback, "ok")>>
    /\ Last(speedtest_log).status = "success"
    /\ Last(speedtest_log).download_mbps = Some(Fallback)

\* C9 as stated: a FAILED record is produced only after every candidate tool
\* (primary and fallback) has been attempted.
C9_FailedOnlyAfterAllCandidates ==
    (st_calls > 0 /\ Last(speedtest_log).status = "failed")
    => ToolsTried = {Primary, Fallback}

\* C9 amended: the primary is tried first and its success is returned; the
\* fallback is attempted exactly when the primary is absent or exits non-zero,
\* and then a FAILED record is written only after the fallback was attempted;
\* when the primary times out or exits 0 with unparseable output a FAILED
\* record is written with the fallback untried.
C9_FallbackOnlyOnAbsentOrNonzero ==
    st_calls > 0 =>
       /\ st_trace[1].tool = Primary
       /\ st_trace[1].outcome = "ok" =>
             /\ ToolsTried = {Primary}
             /\ Last(speedtest_log).status = "success"
             /\ Last(speedtest_log).download_mbps = Some(Primary)
       /\ st_trace[1].outcome \in {"absent", "nonzero"} <=> Fallback \in ToolsTried
       /\ st_trace[1].outcome \in {"timeout", "unparseable"} =>
             /\ ToolsTried = {Primary}
             /\ Last(speedtest_log).status = "failed"
       /\ (Last(speedtest_log).status = "failed" /\ Fallback \notin ToolsTried) =>
             st_trace[1].outcome \in {"timeout", "unparseable"}

\* C9 witness: the primary exited non-zero, the fallback was attempted and
\* failed too, and only then a FAILED record was written.
C9_Witness ==
    /\ st_calls > 0
    /\ st_trace = <<Attempt(Primary, "nonzero"), Attempt(Fallback, "nonzero")>>
    /\ Last(speedtest_log).status = "failed"

\* ------------------------------------------------ claims on the control loop

\* The places the claim names: the initial speed test, a connectivity check,
\* a scheduled speed test or upload, the inter-cycle sleep.
C10_Places ==
    {Some(l) : l \in {"init_speedtest", "check", "probing", "pending", "jobs", "sleep"}}

\* C10: whenever the interrupt arrives after run_monitor has started (during
\* the initial speed test, a connectivity check, a scheduled speed test or
\* upload, or the sleep), exactly one final report is generated before the
\* process terminates.
C10_OneFinalReportOnInterrupt ==
    (pc = "done" /\ interrupted_at \in C10_Places) => Len(reports) = 1

\* The number of times the latest run_speedtest invoked `tool`.
Invocations(tool) == Cardinality({i \in 1..Len(st_trace) : st_trace[i].tool = tool})

\* C20: within one invocation of run_speedtest each external tool is invoked
\* at most once, whatever the tools do (the primary exiting non-zero while
\* the fallback is absent included).
C20_EachToolAtMostOnce ==
    /\ Invocations(Primary) <= 1
    /\ Invocations(Fallback) <= 1

\* The configured targets in the order test_connectivity probes them.
Targets == ping_targets \o http_targets

\* Row k of a batch names the k-th configured target and its method.
RowIsFor(row, k) ==
    /\ row.target = Targets[k]
    /\ row.method = Targets[k][1]

\* C13: in every connectivity check every configured PING and HTTP target is
\* probed and exactly one row per configured target is appended, whatever
\* the other probes of the batch did; a failed probe is one failed vote and
\* one "disconnected" row, and the batch goes on.
C13_OneRowPerTarget ==
    /\ Len(connectivity_log) = Len(verdicts) * BatchSize
    /\ \A i \in 1..Len(verdicts) :
          \A k \in 1..BatchSize : RowIsFor(BatchRows(i)[k], k)
    /\ Len(results) <= BatchSize
    /\ \A k \in 1..Len(results) : RowIsFor(results[k], k)
    /\ pc = "probing" =>
          /\ total_tests = Len(results)
          /\ successful_tests = Successes(results)
          /\ total_tests - successful_tests =
                 Cardinality({k \in 1..Len(results) :
                                 results[k].status = "disconnected"})

\* A completed batch of at least three targets whose first probe failed and
\* whose last probe succeeded.
C13_Witness ==
    /\ pc = "check"
    /\ Len(verdicts) = 1
    /\ BatchSize >= 3
    /\ Len(ping_targets) >= 1
    /\ Len(http_targets) >= 1
    /\ BatchRows(1)[1].status = "disconnected"
    /\ BatchRows(1)[BatchSize].status = "connected"

\* --------------------------------------------- claims on the control loop

\* The connectivity check of the current tick has completed: its rows are in
\* connectivity.csv and its verdict has been processed.
CheckOfTickDone ==
    /\ ticks >= 1
    /\ Len(verdicts) = ticks
    /\ Len(connectivity_log) = ticks * BatchSize
    /\ Len(results) = BatchSize

\* The time the run_speedtest job was scheduled or last ran: every run
\* appends one row, the first row being that of the initial speed test.
LastSpeedtestJob ==
    IF Len(speedtest_log) <= 1 THEN StartTime ELSE Last(speedtest_log).timestamp

\* The time the upload_logs job was scheduled or last ran.
LastUploadJob == IF uploads = <<>> THEN StartTime ELSE Last(uploads)

\* A step of a connectivity check: a probe, or the append and the update.
CheckStep ==
    \/ results' # results
    \/ connectivity_log' # connectivity_log
    \/ verdicts' # verdicts

\* C19: in every tick the connectivity check (probe batch, row append,
\* state-machine update) completes before any speed test or upload of that
\* tick; a speed test or an upload runs only when its own interval has
\* elapsed (an upload only when enabled), inline in the tick, never within a
\* connectivity check.
C19_CheckFirstThenDueJobs ==
    [][ /\ (st_calls' # st_calls /\ pc # "init_speedtest") =>
              /\ pc = "jobs"
              /\ CheckOfTickDone
              /\ clock >= LastSpeedtestJob + speedtest_interval
        /\ uploads' # uploads =>
              /\ pc = "jobs"
              /\ vps_enabled
              /\ CheckOfTickDone
              /\ clock >= LastUploadJob + upload_interval
        /\ pc \in {"pending", "jobs", "sleep"} => CheckOfTickDone
        /\ CheckStep =>
              /\ pc \in {"check", "probing"}
              /\ runnable = <<>>
              /\ st_calls' = st_calls
              /\ uploads' = uploads
      ]_vars

\* A tick in which, after the check, both a speed test and an upload ran.
C19_Witness ==
    /\ pc = "jobs"
    /\ runnable = <<>>
    /\ CheckOfTickDone
    /\ st_calls >= 2
    /\ uploads # <<>>
    /\ Last(uploads) > Last(verdicts).t
    /\ Last(speedtest_log).timestamp > Last(verdicts).t

\* C16: (is_connected, disconnect_start, last_successful_probe) is updated
\* once per connectivity check, by the state-machine step only and in the
\* order of the checks; a speed test, an upload and a report leave the three
\* fields unchanged.
C16_StateOnlyByStateMachine ==
    [][ /\ ConnState' # ConnState => Fed
        /\ Fed =>
              /\ pc = "probing"
              /\ Len(verdicts') = ticks
              /\ Len(connectivity_log') = ticks * BatchSize
              /\ Last(verdicts').v =
                     (2 * Successes(BatchRows(ticks)') > BatchSize)
              /\ verdicts # <<>> => Last(verdicts).t < Last(verdicts').t
        /\ (st_calls' # st_calls \/ uploads' # uploads \/ reports' # reports) =>
              /\ ConnState' = ConnState
              /\ ~Fed
        /\ Len(verdicts) <= ticks
        /\ ticks <= Len(verdicts) + 1
      ]_vars

\* Disconnected after two checks, with a speed test, an upload and the final
\* report run since the last update.
C16_Witness ==
    /\ pc = "done"
    /\ Len(verdicts) >= 2
    /\ ~is_connected
    /\ reports # <<>>
    /\ uploads # <<>>
    /\ st_calls >= 2
    /\ Last(speedtest_log).status = "success"
    /\ Last(speedtest_log).timestamp > Last(verdicts).t

\* run_monitor has left its loop.
LoopEnded == pc \in {"report", "done", "crashed"}

\* C11: the main loop ends on an explicit interrupt only; a failure inside a
\* periodic action (the connectivity check with its row append and its event
\* write, a speed test, an upload) is caught at that action's boundary and
\* the loop goes on to the next tick.
C11_LoopEndsOnlyOnInterrupt == LoopEnded => interrupted_at # None

\* ------------------------------------------------- claims on the report

\* The report of the `--report` run.
TheReport == reports[1]

\* The number of rows of connectivity.csv whose status is not disconnected.
RECURSIVE NotDisconnected(_)
NotDisconnected(log) ==
    IF log = <<>> THEN 0
    ELSE (IF Last(log).status = "disconnected" THEN 0 ELSE 1)
         + NotDisconnected(SubSeq(log, 1, Len(log) - 1))

\* C14: success_rate_pct = (total - failed) / total * 100 with total the
\* number of rows of the connectivity series and failed the number of rows
\* with status disconnected; it is 0 when total is 0, 100 when failed is 0
\* and total > 0, and 70 for ten rows of which three are disconnected.
C14_SuccessRate ==
    (reports # <<>> /\ TheReport.connectivity # None) =>
       LET c      == TheReport.connectivity[1]
           total  == Len(connectivity_log)
           failed == total - NotDisconnected(connectivity_log)
           rate   == c.success_rate
       IN  /\ c.total_tests = total
           /\ c.failed_tests = failed
           /\ rate.den > 0
           /\ total > 0 => rate.num * total = (total - failed) * 100 * rate.den
           /\ total = 0 => rate.num = 0
           /\ (total > 0 /\ failed = 0) => rate.num = 100 * rate.den
           /\ (total = 10 /\ failed = 3) => rate.num = 70 * rate.den

\* The report over ten rows of which three are disconnected.
C14_Witness ==
    /\ reports # <<>>
    /\ TheReport.connectivity # None
    /\ TheReport.connectivity[1].total_tests = 10
    /\ TheReport.connectivity[1].failed_tests = 3
    /\ connectivity_log[1].status = "disconnected"
    /\ connectivity_log[10].status = "connected"

\* The rows of events.csv with event_type disconnect, in file order.
DisconnectRows == SelectSeq(events_log, LAMBDA e : e.event_type = "disconnect")

\* The sum of duration_seconds over the first n rows of a sequence.
RECURSIVE SumDurations(_, _)
SumDurations(rows, n) ==
    IF n = 0 THEN 0 ELSE SumDurations(rows, n - 1) + rows[n].duration_seconds

\* Every duration_seconds of a disconnect row of events.csv is a number.
DurationsWellFormed ==
    \A i \in 1..Len(events_log) :
       events_log[i].event_type = "disconnect" => Parses("events", i)

\* C15: the report's disconnect summary is present iff the events series has
\* at least one disconnect row; when present, count is the number of
\* disconnect rows, total_downtime_s the sum of their duration_seconds and
\* avg_disconnect_s = total_downtime_s / count (30 and 90 give 120 and 60).
\* The durations are numbers, as in the data model.
C15_DisconnectSummary ==
    (reports # <<>> /\ DurationsWellFormed) =>
       LET d == TheReport.disconnections
           n == Len(DisconnectRows)
       IN  /\ d # None <=> n >= 1
           /\ d # None =>
                 /\ d[1].disconnections = n
                 /\ d[1].total_downtime = SumDurations(DisconnectRows, n)
                 /\ d[1].avg_disconnect_duration.den > 0
                 /\ d[1].avg_disconnect_duration.num * n =
                        d[1].total_downtime * d[1].avg_disconnect_duration.den
                 /\ (n = 2 /\ DisconnectRows[1].duration_seconds = 30
                           /\ DisconnectRows[2].duration_seconds = 90) =>
                        /\ d[1].total_downtime = 120
                        /\ d[1].avg_disconnect_duration.num =
                               60 * d[1].avg_disconnect_duration.den

\* The report over an events series with disconnect rows of 30 s and 90 s.
C15_Witness ==
    /\ reports # <<>>
    /\ Len(events_log) = 2
    /\ events_log[1].event_type = "disconnect"
    /\ events_log[1].duration_seconds = 30
    /\ events_log[2].event_type = "disconnect"
    /\ events_log[2].duration_seconds = 90
    /\ TheReport.disconnections # None
    /\ TheReport.disconnections[1].total_downtime = 120

\* The section of a series can be written from the series itself.
EventsUsable ==
    /\ "events" \in existing
    /\ Len(DisconnectRows) >= 1
    /\ DurationsWellFormed

SpeedtestUsable ==
    /\ "speedtest" \in existing
    /\ \E i \in 1..Len(speedtest_log) : speedtest_log[i].status = "success"
    /\ \A i \in 1..Len(speedtest_log) :
          speedtest_log[i].status = "success" => Parses("speedtest", i)

\* C12: generate_report never fails as a whole: when a series is missing or
\* holds a malformed row (a non-numeric duration_seconds or download_mbps),
\* only that series' section is degraded or omitted, the sections of the
\* other series are produced and a report is returned.
C12_ReportNeverFailsAsAWhole ==
    reports # <<>> =>
       /\ TheReport.returned
       /\ "connectivity" \in existing => TheReport.connectivity # None
       /\ EventsUsable => TheReport.disconnections # None
       /\ SpeedtestUsable => TheReport.speed # None

\* ------------------------------------------------- claims on the three series

\* Sequence a is a prefix of sequence b.
IsPrefix(a, b) == Len(a) <= Len(b) /\ SubSeq(b, 1, Len(a)) = a

\* C17: the three series are append-only: through the initialisation over
\* existing files, connectivity checks, speed tests, report generations and
\* uploads, the earlier content of a series is a prefix of its later content;
\* the header is written only when the series does not exist yet.
C17_AppendOnly ==
    [][ /\ IsPrefix(connectivity_log, connectivity_log')
        /\ IsPrefix(speedtest_log, speedtest_log')
        /\ IsPrefix(events_log, events_log')
        /\ \A s \in header_written' \ header_written : s \notin existing
        /\ existing \subseteq existing'
      ]_vars

\* A monitor started over an existing connectivity.csv and events.csv and no
\* speedtest.csv, after a connectivity check and a speed test.
C17_Witness ==
    /\ pc = "check"
    /\ header_written = {"speedtest"}
    /\ Len(connectivity_log) = 1 + BatchSize
    /\ connectivity_log[1] = ExistingConnRow(TRUE)
    /\ Len(speedtest_log) = 1
    /\ Len(events_log) = 1

\* C18: a report generation that reads a series while the control loop is
\* appending to it (a report-only run on the log directory of a running
\* monitor) never observes a partially written row.
C18_NoPartialRowObserved ==
    \A i \in 1..Len(observed) : ~observed[i].torn

\* ------------------------------------ claims on transitions and events

\* The positions of the verdict history at which the connection is lost: a
\* false verdict that is the first one or follows a true one (the machine
\* starts CONNECTED).
Losses(h) == {k \in 1..Len(h) : ~h[k].v /\ (k = 1 \/ h[k - 1].v)}

\* C21: after any sequence of connectivity checks, the CONNECTED->DISCONNECTED
\* transitions minus the disconnect rows this run appended number 0 when the
\* state is CONNECTED and 1 when it is DISCONNECTED: every completed outage
\* has one event, the outage in progress has none.
C21_TransitionsMinusEvents ==
    Cardinality(Losses(verdicts)) - Len(events_log) =
        (IF is_connected THEN 0 ELSE 1)

\* DISCONNECTED for the second time: two transitions, one event.
C21_Witness ==
    /\ ~is_connected
    /\ Cardinality(Losses(verdicts)) = 2
    /\ Len(events_log) = 1

\* The downtime of the first n outages the verdict history completed: each
\* lasts from its first false verdict to the true verdict that ends it.
RECURSIVE CompletedDowntime(_, _)
CompletedDowntime(h, n) ==
    IF n = 0 THEN 0
    ELSE CompletedDowntime(h, n - 1)
         + (h[NthRestoration(h, n)].t
            - h[OutageStart(h, NthRestoration(h, n) - 1)].t)

\* The interrupt arrived while the state was DISCONNECTED.
InterruptedWhileDisconnected == interrupted_at # None /\ ~is_connected

\* C22: when the process is interrupted while the state is DISCONNECTED, no
\* disconnect row is written for the outage in progress, and the final
\* report's disconnect count and total downtime cover only the outages that
\* were restored before the interrupt.
C22_OngoingOutageNotReported ==
    InterruptedWhileDisconnected =>
       LET n == Cardinality(Restorations(verdicts))
       IN  /\ disconnect_start # None
           /\ Len(events_log) = n
           /\ \A i \in 1..Len(events_log) :
                 events_log[i].timestamp # disconnect_start[1]
           /\ pc = "done" =>
                 /\ Len(reports) = 1
                 /\ n = 0 => reports[1].disconnections = None
                 /\ n > 0 =>
                       /\ reports[1].disconnections # None
                       /\ reports[1].disconnections[1].disconnections = n
                       /\ reports[1].disconnections[1].total_downtime =
                              CompletedDowntime(verdicts, n)

\* Interrupted in the second outage: the final report counts the first one.
C22_Witness ==
    /\ pc = "done"
    /\ InterruptedWhileDisconnected
    /\ Cardinality(Losses(verdicts)) = 2
    /\ Len(reports) = 1
    /\ reports[1].disconnections # None
    /\ reports[1].disconnections[1].disconnections = 1
    /\ reports[1].disconnections[1].total_downtime =
           events_log[1].duration_seconds
    /\ reports[1].generated_at > disconnect_start[1]

====
